---- MODULE Spec2Model ----
(***************************************************************************)
(* Business Opportunity Evaluator (app.py): one Streamlit session.         *)
(*                                                                         *)
(* The script is re-executed from top to bottom on every run.  What        *)
(* survives between runs is st.session_state: the 'scores' dictionary, the *)
(* 'initialization_warnings' list and one entry per slider widget key.     *)
(* The spreadsheet is read by load_data; its content is fixed for the      *)
(* session.                                                                *)
(*                                                                         *)
(* Names (opportunity identifiers, column headers, slider keys) are        *)
(* sequences of one-character strings, so that strip(), lower() and the    *)
(* f-string concatenation of the slider key are computed, not assumed.     *)
(* A numeric cell holds the numerator n of the number n / Den.             *)
(***************************************************************************)
EXTENDS Integers, Sequences, FiniteSets, TLC

VARIABLES
    table,                    \* first sheet of the workbook, or NoFile
    scores,                   \* st.session_state.scores, or Absent
    initialization_warnings,  \* st.session_state.initialization_warnings, or Absent
    widget_state,             \* st.session_state[slider_key] of the sliders
    sliders,                  \* slider positions in the browser form
    touched,                  \* slider keys the user has moved
    differentiators,          \* load_data result of the last run, or Absent
    business_opportunities,   \* load_data result of the last run, or Absent
    live_results,             \* live_results of the last run, or Absent
    ranking,                  \* live_results_df of the last run, or Absent
    rendered,                 \* sliders rendered by the last run, in order
    submitted,                \* form_submit_button result of the last run
    run_status,               \* how the last run ended
    derivations,              \* executions of the initialization block
    edits                     \* slider moves made so far

vars == <<table, scores, initialization_warnings, widget_state, sliders, touched,
          differentiators, business_opportunities, live_results, ranking,
          rendered, submitted, run_status, derivations, edits>>

----------------------------------------------------------------------------
(* Bounds of the model *)

\* denominator of numeric cells: a cell numerator n stands for n / Den
Den == 4
\* numerators of the wide cell range run from -NegSpan to PosSpan
NegSpan == 8
PosSpan == 28
\* slider moves per session
MaxEdits == 1

(* Program constants *)

default_value_fallback == 3
min_value == 1
max_value == 5

\* an optional value: Absent, or Some(v)
Absent == <<>>
Some(v) == <<v>>
IsPresent(x) == x # <<>>
Val(x) == x[1]

----------------------------------------------------------------------------
(* Text *)

UpperCase == <<"A","B","C","D","E","F","G","H","I","J","K","L","M",
               "N","O","P","Q","R","S","T","U","V","W","X","Y","Z">>
LowerCase == <<"a","b","c","d","e","f","g","h","i","j","k","l","m",
               "n","o","p","q","r","s","t","u","v","w","x","y","z">>
WhiteSpace == {" "}

\* str.lower() on one character
LowerChar(c) ==
    IF \E i \in 1..Len(UpperCase) : UpperCase[i] = c
    THEN LowerCase[CHOOSE i \in 1..Len(UpperCase) : UpperCase[i] = c]
    ELSE c

\* str.lower()
Lower(s) == [i \in 1..Len(s) |-> LowerChar(s[i])]

RECURSIVE LStrip(_)
LStrip(s) ==
    IF s # <<>> /\ Head(s) \in WhiteSpace THEN LStrip(Tail(s)) ELSE s

RECURSIVE RStrip(_)
RStrip(s) ==
    IF s # <<>> /\ s[Len(s)] \in WhiteSpace
    THEN RStrip(SubSeq(s, 1, Len(s) - 1))
    ELSE s

\* str.strip()
Strip(s) == RStrip(LStrip(s))

ReservedNames == { <<"s","c","o","r","e">>,
                   <<"t","o","t","a","l"," ","s","c","o","r","e">> }

\* d.strip().lower() not in ['score', 'total score']   (faulty variant: no strip)
IsDifferentiatorNoStrip(d) == Lower(d) \notin ReservedNames

IsDifferentiator(d) == Lower(Strip(d)) \notin ReservedNames

\* f"{opportunity}_{differentiator}"
SliderKey(opportunity, differentiator) == opportunity \o <<"_">> \o differentiator

----------------------------------------------------------------------------
(* Cells and tables *)

\* a cell: a number n / Den, a missing value, or text
NaN == [kind |-> "nan", n |-> 0]
Num(n) == [kind |-> "num", n |-> n]
Text == [kind |-> "text", n |-> 0]

\* a first-column value: an opportunity name, or a missing value
Id(name) == [missing |-> FALSE, name |-> name]
NaId == [missing |-> TRUE, name |-> <<>>]

\* The workbook: whether the file exists, the header row of its first sheet,
\* and per data row the first-column value and the cells under the other
\* columns (cells[r][c] is the cell of row r under column c + 1).
NoFile == [exists |-> FALSE, columns |-> <<>>, ids |-> <<>>, cells |-> <<>>]
Sheet(columns, ids, cells) ==
    [exists |-> TRUE, columns |-> columns, ids |-> ids, cells |-> cells]

----------------------------------------------------------------------------
(* load_data *)

LoadFailed(error) ==
    [ok |-> FALSE, error |-> error,
     differentiators |-> <<>>, business_opportunities |-> <<>>]

\* Series.dropna().unique().tolist(): first appearances, in order
RECURSIVE DropNaUnique(_, _)
DropNaUnique(ids, seen) ==
    IF ids = <<>> THEN seen
    ELSE LET x == Head(ids)
         IN  IF x.missing \/ (\E i \in 1..Len(seen) : seen[i] = x.name)
             THEN DropNaUnique(Tail(ids), seen)
             ELSE DropNaUnique(Tail(ids), Append(seen, x.name))

\* line 39 (faulty variant: "and" in place of "or")
NothingExtractedAnd(diffs, opps) == diffs = <<>> /\ opps = <<>>

\* line 39: not differentiators or not business_opportunities
NothingExtracted(diffs, opps) == diffs = <<>> \/ opps = <<>>

load_data(t) ==
    IF Len(t.columns) < 2 THEN LoadFailed("columns")
    ELSE LET diffs == SelectSeq(Tail(t.columns), IsDifferentiator)
         IN  IF Len(t.ids) < 1 THEN LoadFailed("rows")
             ELSE LET opps == DropNaUnique(t.ids, <<>>)
                  IN  IF NothingExtracted(diffs, opps) THEN LoadFailed("extract")
                      ELSE [ok |-> TRUE, error |-> "none",
                            differentiators |-> diffs,
                            business_opportunities |-> opps]

----------------------------------------------------------------------------
(* Default derivation *)

\* df_defaults.columns: the header without the index column
DefaultColumns(t) == Tail(t.columns)

ColumnIndex(t, differentiator) ==
    CHOOSE c \in 1..Len(DefaultColumns(t)) : DefaultColumns(t)[c] = differentiator

\* df_defaults.loc[opportunity, differentiator]: a KeyError when no row has the
\* label, the cell when one row has it, a Series of cells when several have it
Loc(t, opportunity, differentiator) ==
    LET rows == { r \in 1..Len(t.ids) :
                    ~t.ids[r].missing /\ t.ids[r].name = opportunity }
        c == ColumnIndex(t, differentiator)
    IN  IF rows = {} THEN [kind |-> "keyerror", cell |-> NaN]
        ELSE IF Cardinality(rows) = 1
             THEN [kind |-> "scalar", cell |-> t.cells[CHOOSE r \in rows : TRUE][c]]
             ELSE [kind |-> "series", cell |-> NaN]

\* round(float(raw_value)) of n / Den   (faulty variant: halves round up)
RoundHalfUp(n) == (2 * n + Den) \div (2 * Den)

\* int(round(float(raw_value))) of n / Den: halves go to the even integer
PyRound(n) ==
    LET q == n \div Den
        r == n % Den
    IN  IF 2 * r < Den THEN q
        ELSE IF 2 * r > Den THEN q + 1
        ELSE IF q % 2 = 0 THEN q ELSE q + 1

\* max(1, min(5, clamped_value))   (faulty variant: the lower limit is dropped)
ClampNoFloor(v) == IF v > max_value THEN max_value ELSE v

Clamp(v) ==
    LET low == IF v < max_value THEN v ELSE max_value
    IN  IF low > min_value THEN low ELSE min_value

Note(kind, opportunity, differentiator, raw, final) ==
    [kind |-> kind, opportunity |-> opportunity, differentiator |-> differentiator,
     raw |-> raw, final |-> final]

Derived(value, warnings) == [value |-> value, warnings |-> warnings]

\* lines 76-81 (faulty variant: the two notes are exchanged)
FallbackNoteSwapped(raw_value, opportunity, differentiator) ==
    IF raw_value.kind = "nan"
    THEN Note("non-numeric", opportunity, differentiator, raw_value, default_value_fallback)
    ELSE Note("missing", opportunity, differentiator, raw_value, default_value_fallback)

\* lines 78-81: the note of a cell that is no number
FallbackNote(raw_value, opportunity, differentiator) ==
    IF raw_value.kind # "nan"
    THEN Note("non-numeric", opportunity, differentiator, raw_value, default_value_fallback)
    ELSE Note("missing", opportunity, differentiator, raw_value, default_value_fallback)

\* lines 66-90: the body of the inner loop, for one pair
DeriveDefault(t, opportunity, differentiator) ==
    IF ~(\E c \in 1..Len(DefaultColumns(t)) : DefaultColumns(t)[c] = differentiator)
    THEN Derived(default_value_fallback,
                 <<Note("column not found", opportunity, differentiator, NaN,
                        default_value_fallback)>>)
    ELSE LET found == Loc(t, opportunity, differentiator)
             raw_value == found.cell
         IN  CASE found.kind = "keyerror" ->
                    Derived(default_value_fallback,
                            <<Note("opportunity not found", opportunity, differentiator,
                                   NaN, default_value_fallback)>>)
               [] found.kind = "series" ->
                    \* pd.notna(Series) and ... raises ValueError: except Exception
                    Derived(default_value_fallback,
                            <<Note("error", opportunity, differentiator, NaN,
                                   default_value_fallback)>>)
               [] found.kind = "scalar" /\ raw_value.kind = "num" ->
                    LET clamped_value == PyRound(raw_value.n)
                        final_value == Clamp(clamped_value)
                    IN  Derived(final_value,
                                IF final_value # clamped_value
                                THEN <<Note("clamped", opportunity, differentiator,
                                            raw_value, final_value)>>
                                ELSE <<>>)
               [] OTHER ->
                    Derived(default_value_fallback,
                            <<FallbackNote(raw_value, opportunity, differentiator)>>)

\* the pairs in the order of the nested loops: opportunities outer
Pairs(opps, diffs) ==
    [p \in 1..(Len(opps) * Len(diffs)) |->
        [opportunity |-> opps[((p - 1) \div Len(diffs)) + 1],
         differentiator |-> diffs[((p - 1) % Len(diffs)) + 1]]]

\* d[key] = value on a dictionary
Assign(d, key, value) ==
    [k \in (DOMAIN d) \cup {key} |-> IF k = key THEN value ELSE d[k]]

\* lines 60-93: the loops, from the empty dictionary and the empty list
RECURSIVE InitializeScores(_, _, _, _)
InitializeScores(t, pairs, sc, warn) ==
    IF pairs = <<>> THEN [scores |-> sc, warnings |-> warn]
    ELSE LET p == Head(pairs)
             d == DeriveDefault(t, p.opportunity, p.differentiator)
         IN  InitializeScores(t, Tail(pairs),
                 Assign(sc, SliderKey(p.opportunity, p.differentiator), d.value),
                 warn \o d.warnings)

----------------------------------------------------------------------------
(* Live score calculation, ranking and the rating form *)

\* d.get(key, default)
DictGet(d, key, default) == IF key \in DOMAIN d THEN d[key] ELSE default

RECURSIVE SumRatings(_, _, _)
SumRatings(sc, opportunity, diffs) ==
    IF diffs = <<>> THEN 0
    ELSE DictGet(sc, SliderKey(opportunity, Head(diffs)), default_value_fallback)
         + SumRatings(sc, opportunity, Tail(diffs))

\* lines 97-107: live_results, in the insertion order of the dictionary
LiveResults(sc, opps, diffs) ==
    [i \in 1..Len(opps) |->
        [opportunity |-> opps[i], total |-> SumRatings(sc, opps[i], diffs)]]

IndexOrders(n) ==
    { p \in [1..n -> 1..n] : \A i, j \in 1..n : i # j => p[i] # p[j] }

\* line 110: sort_values(by='Current Score', ascending=False) with the default
\* kind='quicksort', which orders the rows by descending score and promises
\* nothing about rows of equal score
SortValues(results) ==
    { [i \in 1..Len(results) |-> results[p[i]]] :
        p \in { q \in IndexOrders(Len(results)) :
                  \A i \in 1..(Len(results) - 1) :
                      results[q[i]].total >= results[q[i + 1]].total } }

\* lines 146-159: the sliders of the form, in the order they are rendered
FormSliders(opps, diffs) ==
    [p \in 1..(Len(opps) * Len(diffs)) |->
        [opportunity |-> Pairs(opps, diffs)[p].opportunity,
         differentiator |-> Pairs(opps, diffs)[p].differentiator,
         key |-> SliderKey(Pairs(opps, diffs)[p].opportunity,
                           Pairs(opps, diffs)[p].differentiator)]]

\* st.slider raises on a key an earlier widget of the run already has: the
\* index of the first such slider, or 0
FirstDuplicate(form) ==
    IF \E j \in 1..Len(form) : \E i \in 1..(j - 1) : form[i].key = form[j].key
    THEN CHOOSE j \in 1..Len(form) :
            /\ \E i \in 1..(j - 1) : form[i].key = form[j].key
            /\ \A k \in 1..(j - 1) : \A i \in 1..(k - 1) : form[i].key # form[k].key
    ELSE 0

RenderedSliders(form) ==
    IF FirstDuplicate(form) = 0 THEN form
    ELSE SubSeq(form, 1, FirstDuplicate(form) - 1)

KeysOf(form) == { form[i].key : i \in 1..Len(form) }

----------------------------------------------------------------------------
(* One run of the script *)

\* line 59 (faulty variant: the block runs on every run)
NeedsInitializationAlways(sc) == TRUE

\* line 59: 'scores' not in st.session_state
NeedsInitialization(sc) == ~IsPresent(sc)

\* lines 12-179, with the widget values ws the browser sent for this run
ScriptRun(ws, submit) ==
    IF ~table.exists
    THEN \* lines 15-18
         /\ run_status' = "file_missing"
         /\ differentiators' = Absent /\ business_opportunities' = Absent
         /\ live_results' = Absent /\ ranking' = Absent
         /\ rendered' = <<>> /\ submitted' = FALSE
         /\ UNCHANGED <<scores, initialization_warnings, widget_state, sliders,
                        derivations>>
    ELSE LET loaded == load_data(table)
         IN  IF ~loaded.ok
             THEN \* lines 55-56
                  /\ run_status' = "load_failed"
                  /\ differentiators' = Absent /\ business_opportunities' = Absent
                  /\ live_results' = Absent /\ ranking' = Absent
                  /\ rendered' = <<>> /\ submitted' = FALSE
                  /\ UNCHANGED <<scores, initialization_warnings, widget_state,
                                 sliders, derivations>>
             ELSE LET diffs == loaded.differentiators
                      opps == loaded.business_opportunities
                      init == InitializeScores(table, Pairs(opps, diffs), <<>>, <<>>)
                      sc == IF NeedsInitialization(scores) THEN init.scores
                            ELSE Val(scores)
                      results == LiveResults(sc, opps, diffs)
                      form == FormSliders(opps, diffs)
                      shown == RenderedSliders(form)
                  IN  /\ differentiators' = Some(diffs)
                      /\ business_opportunities' = Some(opps)
                      /\ scores' = Some(sc)
                      /\ initialization_warnings' =
                            IF NeedsInitialization(scores) THEN Some(init.warnings)
                            ELSE initialization_warnings
                      /\ derivations' =
                            IF NeedsInitialization(scores) THEN derivations + 1
                            ELSE derivations
                      /\ live_results' = Some(results)
                      /\ \E sorted \in SortValues(results) : ranking' = Some(sorted)
                      /\ rendered' = shown
                      /\ widget_state' =
                            [k \in KeysOf(shown) |-> DictGet(ws, k, min_value)]
                      /\ sliders' =
                            [k \in KeysOf(shown) |->
                                DictGet(sliders, k, DictGet(ws, k, min_value))]
                      /\ IF FirstDuplicate(form) = 0
                         THEN run_status' = "completed" /\ submitted' = submit
                         ELSE run_status' = "duplicate_key" /\ submitted' = FALSE

\* the page is opened, or run again without the form being submitted
Rerun ==
    /\ ScriptRun(widget_state, FALSE)
    /\ UNCHANGED <<table, touched, edits>>

\* the user moves one slider of the form; nothing is sent before the submit
SetSlider(key, v) ==
    /\ edits < MaxEdits
    /\ key \in DOMAIN sliders
    /\ sliders[key] # v
    /\ sliders' = [sliders EXCEPT ![key] = v]
    /\ touched' = touched \cup {key}
    /\ edits' = edits + 1
    /\ UNCHANGED <<table, scores, initialization_warnings, widget_state,
                   differentiators, business_opportunities, live_results, ranking,
                   rendered, submitted, run_status, derivations>>

\* "Confirm Ratings": the form's slider values are sent and the script runs
Submit ==
    /\ run_status = "completed"
    /\ ScriptRun(sliders, TRUE)
    /\ UNCHANGED <<table, touched, edits>>

Next ==
    \/ Rerun
    \/ \E key \in DOMAIN sliders : \E v \in min_value..max_value : SetSlider(key, v)
    \/ Submit

----------------------------------------------------------------------------
(* Workbooks *)

N_Opp == <<"O","p","p">>
N_A == <<"A">>
N_B == <<"B">>
N_A_B == <<"A","_","B">>
N_C == <<"C">>
N_B_C == <<"B","_","C">>
N_Score == <<" ","S","c","o","r","e"," ">>
N_TOTAL == <<"T","O","T","A","L"," ","S","C","O","R","E">>
N_Scores == <<"S","c","o","r","e","s">>

\* every filling of an r x c sheet with cells of the set
CellFills(r, c, cellSet) == [1..r -> [1..c -> cellSet]]

Shape(columns, ids) == [columns |-> columns, ids |-> ids]

\* the sheets of the given shapes, their cells filled from the set
Sheets(shapes, cellSet) ==
    UNION { { Sheet(sh.columns, sh.ids, cells) :
                cells \in CellFills(Len(sh.ids), Len(sh.columns) - 1, cellSet) } :
            sh \in shapes }

\* sheets load_data rejects: no column, one column, no row, reserved columns
\* only, no opportunity
RejectedShapes ==
    { Shape(<<>>, <<>>),
      Shape(<<N_Opp>>, <<Id(N_A)>>),
      Shape(<<N_Opp, N_C>>, <<>>),
      Shape(<<N_Opp, N_Score, N_TOTAL>>, <<Id(N_A)>>),
      Shape(<<N_Opp, N_C>>, <<NaId>>) }

\* sheets load_data accepts: a repeated identifier, three opportunities, two
\* differentiators, headers and identifiers with underscores, reserved and
\* nearly reserved headers, a row without identifier
AcceptedShapes ==
    { Shape(<<N_Opp, N_C>>, <<Id(N_A), Id(N_A)>>),
      Shape(<<N_Opp, N_C>>, <<Id(N_B), Id(N_A), Id(N_A_B)>>),
      Shape(<<N_Opp, N_C, N_B_C>>, <<Id(N_A)>>),
      Shape(<<N_Opp, N_C, N_B_C>>, <<Id(N_A_B), Id(N_A)>>),
      Shape(<<N_Opp, N_Score, N_C>>, <<NaId, Id(N_A)>>),
      Shape(<<N_Opp, N_Scores, N_TOTAL>>, <<Id(N_A_B)>>) }

SmallCells == { Num(5 * Den), Num((3 * Den) \div 2), NaN }

\* numbers from -NegSpan / Den to PosSpan / Den, a missing value and text
WideCells == { Num(n) : n \in (0 - NegSpan)..PosSpan } \cup { NaN, Text }

MixedCells == { Num(7 * Den), Num((5 * Den) \div 2), Num(0 - Den), NaN, Text }

Workbooks ==
    { NoFile } \cup Sheets(RejectedShapes \cup AcceptedShapes, SmallCells)

CellWorkbooks ==
    Sheets({ Shape(<<N_Opp, N_C>>, <<Id(N_A)>>) }, WideCells)
    \cup Sheets({ Shape(<<N_Opp, N_C>>, <<Id(N_A), Id(N_B)>>),
                  Shape(<<N_Opp, N_C>>, <<Id(N_A), Id(N_A)>>) }, MixedCells)

StartsWith(books) ==
    /\ table \in books
    /\ scores = Absent
    /\ initialization_warnings = Absent
    /\ widget_state = <<>>
    /\ sliders = <<>>
    /\ touched = {}
    /\ differentiators = Absent
    /\ business_opportunities = Absent
    /\ live_results = Absent
    /\ ranking = Absent
    /\ rendered = <<>>
    /\ submitted = FALSE
    /\ run_status = "not_run"
    /\ derivations = 0
    /\ edits = 0

\* a new session on any of the workbooks
Init == StartsWith(Workbooks)

Spec == Init /\ [][Next]_vars

\* a new session on a one-column sheet whose cells range widely
InitCells == StartsWith(CellWorkbooks)

SpecCells == InitCells /\ [][Next]_vars

----------------------------------------------------------------------------
(* Vocabulary of the properties *)

\* the rows of the sheet whose first column holds the name
RowsOf(name) ==
    { r \in 1..Len(table.ids) : ~table.ids[r].missing /\ table.ids[r].name = name }

\* the (row, column) positions that hold the one cell of a pair: the row is
\* the only one of its identifier and the column is a differentiator
SingleCells ==
    { rc \in (1..Len(table.ids)) \X (1..(Len(table.columns) - 1)) :
        /\ ~table.ids[rc[1]].missing
        /\ RowsOf(table.ids[rc[1]].name) = {rc[1]}
        /\ IsPresent(differentiators)
        /\ \E i \in 1..Len(Val(differentiators)) :
              Val(differentiators)[i] = table.columns[rc[2] + 1] }

CellAt(rc) == table.cells[rc[1]][rc[2]]
OpportunityAt(rc) == table.ids[rc[1]].name
DifferentiatorAt(rc) == table.columns[rc[2] + 1]
KeyAt(rc) == OpportunityAt(rc) \o <<"_">> \o DifferentiatorAt(rc)

\* the notes recorded for a pair
NotesFor(opportunity, differentiator) ==
    { i \in 1..Len(Val(initialization_warnings)) :
        /\ Val(initialization_warnings)[i].opportunity = opportunity
        /\ Val(initialization_warnings)[i].differentiator = differentiator }

NoteKinds(opportunity, differentiator) ==
    { Val(initialization_warnings)[i].kind : i \in NotesFor(opportunity, differentiator) }

\* r is n / Den rounded to the nearest integer, a tie going to the even one
IsNearestEven(r, n) ==
    LET twice == IF 2 * (Den * r - n) >= 0 THEN 2 * (Den * r - n)
                 ELSE 2 * (n - Den * r)
    IN  /\ twice <= Den
        /\ twice = Den => r % 2 = 0

RoundedRange == (0 - NegSpan - 2)..(PosSpan + 2)

\* a header is "score" or "total score" in any letter case, spaces around it
CaseFoldEq(c, lower) ==
    \/ c = lower
    \/ \E i \in 1..Len(LowerCase) : LowerCase[i] = lower /\ UpperCase[i] = c

ReservedHeader(name) ==
    \E w \in ReservedNames : \E lead \in 0..Len(name) :
        /\ lead + Len(w) <= Len(name)
        /\ \A j \in 1..lead : name[j] = " "
        /\ \A j \in (lead + Len(w) + 1)..Len(name) : name[j] = " "
        /\ \A j \in 1..Len(w) : CaseFoldEq(name[lead + j], w[j])

----------------------------------------------------------------------------
(* C2 *)

\* C2: in every reachable state of a session every entry of
\* st.session_state.scores is an integer from 1 to 5, whatever the cells hold.
C2_ScoresInRange ==
    IsPresent(scores) =>
        \A k \in DOMAIN Val(scores) :
            Val(scores)[k] \in Int /\ 1 <= Val(scores)[k] /\ Val(scores)[k] <= 5

\* a store built from a number below the range, kept through an edit and a
\* confirmed form
C2_Witness ==
    /\ IsPresent(scores)
    /\ submitted /\ edits > 0
    /\ \E rc \in SingleCells : CellAt(rc).kind = "num" /\ CellAt(rc).n < Den

----------------------------------------------------------------------------
(* C3 *)

\* C3: a numeric cell n / Den gives the rating min(5, max(1, r)), r being the
\* cell rounded to the nearest integer with ties to the even one; a clamp note
\* is recorded for the pair exactly when r is outside 1..5, and no note at all
\* when r is inside.
C3_NumericDefault ==
    IsPresent(scores) =>
        \A rc \in SingleCells :
            CellAt(rc).kind = "num" =>
                /\ \E r \in RoundedRange : IsNearestEven(r, CellAt(rc).n)
                /\ \A r \in RoundedRange :
                      IsNearestEven(r, CellAt(rc).n) =>
                          /\ Val(scores)[KeyAt(rc)] =
                                (IF r > 5 THEN 5 ELSE IF r < 1 THEN 1 ELSE r)
                          /\ ("clamped" \in NoteKinds(OpportunityAt(rc), DifferentiatorAt(rc)))
                                <=> (r < 1 \/ r > 5)
                          /\ (1 <= r /\ r <= 5) =>
                                NotesFor(OpportunityAt(rc), DifferentiatorAt(rc)) = {}

\* a store built from a cell that lies halfway between two integers
C3_Witness ==
    /\ IsPresent(scores)
    /\ \E rc \in SingleCells :
          /\ CellAt(rc).kind = "num"
          /\ 2 * (CellAt(rc).n % Den) = Den
          /\ (CellAt(rc).n \div Den) % 2 = 0
          /\ CellAt(rc).n > Den

----------------------------------------------------------------------------
(* C4 *)

\* C4: a missing cell gives the rating 3 and exactly one note, a "missing"
\* one; a cell that holds text gives the rating 3 and exactly one note, a
\* "non-numeric" one; the initialization still fills the store for every pair
\* and the run still computes a total for every opportunity.
C4_FallbackDefaults ==
    IsPresent(scores) =>
        /\ \A rc \in SingleCells :
              /\ CellAt(rc).kind = "nan" =>
                    /\ Val(scores)[KeyAt(rc)] = 3
                    /\ Cardinality(NotesFor(OpportunityAt(rc), DifferentiatorAt(rc))) = 1
                    /\ NoteKinds(OpportunityAt(rc), DifferentiatorAt(rc)) = {"missing"}
              /\ CellAt(rc).kind = "text" =>
                    /\ Val(scores)[KeyAt(rc)] = 3
                    /\ Cardinality(NotesFor(OpportunityAt(rc), DifferentiatorAt(rc))) = 1
                    /\ NoteKinds(OpportunityAt(rc), DifferentiatorAt(rc)) = {"non-numeric"}
        /\ \A i \in 1..Len(Val(business_opportunities)) :
              \A j \in 1..Len(Val(differentiators)) :
                  (Val(business_opportunities)[i] \o <<"_">> \o Val(differentiators)[j])
                      \in DOMAIN Val(scores)
        /\ IsPresent(live_results)
        /\ Len(Val(live_results)) = Len(Val(business_opportunities))
        /\ run_status = "completed"

\* a store built from a missing cell followed by a text cell
C4_Witness ==
    /\ IsPresent(scores)
    /\ Len(table.ids) = 2
    /\ \E rc \in SingleCells : rc[1] = 1
    /\ \E rc \in SingleCells : rc[1] = 2
    /\ table.cells[1][1].kind = "nan"
    /\ table.cells[2][1].kind = "text"
    /\ Cardinality(DOMAIN Val(scores)) = 2

----------------------------------------------------------------------------
(* C1 *)

\* the store as the user has set it: the slider value for a moved slider
StoreAsSet(sc) ==
    [k \in DOMAIN sc |-> IF k \in touched /\ k \in DOMAIN sliders THEN sliders[k]
                         ELSE sc[k]]

\* C1: when the form is confirmed, the run that follows totals, for every
\* opportunity, the values the user last set on its sliders (the stored rating
\* where the user moved nothing).
C1_EditsAggregated ==
    [][Submit =>
        (IsPresent(live_results') =>
            \A i \in 1..Len(Val(live_results')) :
                Val(live_results')[i].total =
                    SumRatings(StoreAsSet(Val(scores')),
                               Val(business_opportunities')[i],
                               Val(differentiators')))]_vars

----------------------------------------------------------------------------
(* C5 *)

\* C5: the default derivation runs once per session: the run that creates the
\* store is the only execution of the initialization block, and from then on
\* no run or slider move changes the store or the notes.
C5_DerivedOnce ==
    [][/\ derivations' <= 1
       /\ (~IsPresent(scores) /\ IsPresent(scores')) =>
             (derivations' = 1 /\ IsPresent(initialization_warnings'))
       /\ IsPresent(scores) =>
             /\ scores' = scores
             /\ initialization_warnings' = initialization_warnings
             /\ derivations' = derivations]_vars

\* a session whose form was confirmed after a slider move: at least two runs
C5_Witness ==
    /\ derivations = 1
    /\ IsPresent(scores)
    /\ submitted
    /\ edits > 0
    /\ \E k \in touched : widget_state[k] # Val(scores)[k]

----------------------------------------------------------------------------
(* C6 *)

\* position of an opportunity in a sequence of results
PositionIn(results, opportunity) ==
    CHOOSE i \in 1..Len(results) : results[i].opportunity = opportunity

\* C6: the ranking holds the results by descending total, and results of equal
\* total keep the order they have in the opportunity list.
C6_StableRanking ==
    IsPresent(ranking) =>
        LET ranked == Val(ranking)
            results == Val(live_results)
        IN  /\ Len(ranked) = Len(results)
            /\ \A i \in 1..Len(results) :
                  \E j \in 1..Len(ranked) : ranked[j] = results[i]
            /\ \A i \in 1..(Len(ranked) - 1) : ranked[i].total >= ranked[i + 1].total
            /\ \A i, j \in 1..Len(results) :
                  (i < j /\ results[i].total = results[j].total) =>
                      PositionIn(ranked, results[i].opportunity)
                          < PositionIn(ranked, results[j].opportunity)

----------------------------------------------------------------------------
(* C7 *)

\* the columns after the first that are not reserved
OpenColumns ==
    { c \in 2..Len(table.columns) : ~ReservedHeader(table.columns[c]) }

RECURSIVE SumOfEntries(_, _, _)
SumOfEntries(opportunity, columnSet, sc) ==
    IF columnSet = {} THEN 0
    ELSE LET c == CHOOSE x \in columnSet : TRUE
             key == opportunity \o <<"_">> \o table.columns[c]
         IN  (IF key \in DOMAIN sc THEN sc[key] ELSE 3)
             + SumOfEntries(opportunity, columnSet \ {c}, sc)

\* C7: the differentiators are the columns after the first whose header is not
\* reserved, in their order; every total is the sum, over exactly those
\* columns, of the store's entry for the pair (3 for a pair without entry);
\* the store's keys and the sliders come from those columns only.
C7_TotalsOverDifferentiators ==
    IsPresent(live_results) =>
        LET diffs == Val(differentiators)
            opps == Val(business_opportunities)
        IN  /\ Len(diffs) = Cardinality(OpenColumns)
            /\ \A c \in OpenColumns : \E i \in 1..Len(diffs) : diffs[i] = table.columns[c]
            /\ \A i \in 1..Len(diffs) : ~ReservedHeader(diffs[i])
            /\ \A i, j \in 1..Len(diffs) :
                  i < j => \E c, e \in OpenColumns :
                              /\ c < e
                              /\ table.columns[c] = diffs[i]
                              /\ table.columns[e] = diffs[j]
            /\ \A i \in 1..Len(opps) :
                  /\ Val(live_results)[i].opportunity = opps[i]
                  /\ Val(live_results)[i].total =
                        SumOfEntries(opps[i], OpenColumns, Val(scores))
            /\ DOMAIN Val(scores) =
                  { opps[i] \o <<"_">> \o table.columns[c] :
                        i \in 1..Len(opps), c \in OpenColumns }
            /\ \A i \in 1..Len(rendered) :
                  /\ ~ReservedHeader(rendered[i].differentiator)
                  /\ rendered[i].key \in DOMAIN Val(scores)

\* a confirmed form on a sheet with a reserved column next to a differentiator
C7_Witness ==
    /\ IsPresent(live_results)
    /\ submitted
    /\ \E c \in 2..Len(table.columns) : ReservedHeader(table.columns[c])
    /\ \E c \in 2..Len(table.columns) : ~ReservedHeader(table.columns[c])
    /\ \E i \in 1..Len(Val(live_results)) : Val(live_results)[i].total = 5

----------------------------------------------------------------------------
(* C8 *)

\* the sheet without the rows that repeat an earlier identifier
FirstRows ==
    LET keep == { r \in 1..Len(table.ids) :
                    table.ids[r].missing
                    \/ \A q \in 1..(r - 1) :
                          table.ids[q].missing \/ table.ids[q].name # table.ids[r].name }
        RECURSIVE Pick(_)
        Pick(r) == IF r > Len(table.ids) THEN <<>>
                   ELSE IF r \in keep THEN <<r>> \o Pick(r + 1) ELSE Pick(r + 1)
        rows == Pick(1)
    IN  Sheet(table.columns,
              [i \in 1..Len(rows) |-> table.ids[rows[i]]],
              [i \in 1..Len(rows) |-> table.cells[rows[i]]])

\* C8: an identifier held by several rows is one opportunity, and each of its
\* default ratings is the one the cell of its first row gives.
C8_FirstOccurrenceWins ==
    IsPresent(scores) =>
        LET opps == Val(business_opportunities)
            diffs == Val(differentiators)
        IN  /\ \A i, j \in 1..Len(opps) : i # j => opps[i] # opps[j]
            /\ \A i \in 1..Len(opps) : \A j \in 1..Len(diffs) :
                  Cardinality(RowsOf(opps[i])) > 1 =>
                      Val(scores)[opps[i] \o <<"_">> \o diffs[j]] =
                          DeriveDefault(FirstRows, opps[i], diffs[j]).value

----------------------------------------------------------------------------
(* C9 *)

\* the four conditions under which the sheet is rejected
Rejected ==
    \/ Len(table.columns) < 2
    \/ Len(table.ids) = 0
    \/ OpenColumns = {}
    \/ \A r \in 1..Len(table.ids) : table.ids[r].missing

\* C9: a sheet with fewer than two columns, without rows, without a
\* differentiator or without an opportunity ends the run right after loading:
\* no store, no totals, no ranking, no slider; any other sheet is loaded and
\* the run goes on to initialize the store.
C9_FatalLoad ==
    (table.exists /\ run_status # "not_run") =>
        /\ Rejected <=> run_status = "load_failed"
        /\ Rejected =>
              /\ ~IsPresent(scores) /\ ~IsPresent(initialization_warnings)
              /\ ~IsPresent(live_results) /\ ~IsPresent(ranking)
              /\ rendered = <<>> /\ DOMAIN widget_state = {}
              /\ derivations = 0
        /\ ~Rejected =>
              /\ IsPresent(scores) /\ derivations = 1
              /\ IsPresent(live_results)

\* a run stopped on a sheet that has columns and rows but no opportunity
C9_Witness ==
    /\ run_status = "load_failed"
    /\ Len(table.columns) >= 2
    /\ Len(table.ids) >= 1
    /\ OpenColumns # {}

----------------------------------------------------------------------------
(* C10 *)

\* C10: two different pairs never have the same key, so the store holds one
\* entry per pair and the entry of a pair is the rating of its own cell.
C10_OneEntryPerPair ==
    IsPresent(scores) =>
        LET opps == Val(business_opportunities)
            diffs == Val(differentiators)
        IN  /\ \A i, k \in 1..Len(opps) : \A j, l \in 1..Len(diffs) :
                  (i # k \/ j # l) =>
                      (opps[i] \o <<"_">> \o diffs[j]) # (opps[k] \o <<"_">> \o diffs[l])
            /\ Cardinality(DOMAIN Val(scores)) = Len(opps) * Len(diffs)
            /\ \A i \in 1..Len(opps) : \A j \in 1..Len(diffs) :
                  Val(scores)[opps[i] \o <<"_">> \o diffs[j]] =
                      DeriveDefault(table, opps[i], diffs[j]).value

====
